---- MODULE Spec2Model ----
(***************************************************************************)
(* Model of the CMS backend (src/backend/server.js): the users and pages   *)
(* tables, the JWT guard authenticateToken and the six routes.  Each       *)
(* action is one HTTP request handled to completion: the request that was  *)
(* served is kept in req, the response that was sent in res, until the     *)
(* request ends.  Handlers that interleave at their awaits and callbacks   *)
(* are modelled step by step (inflight), a second execution of the page    *)
(* store runs beside the first (twin), and the React client                *)
(* (src/cms-frontend/src/App.jsx) keeps its token, its pages and its       *)
(* requests under way (clientToken, clientPages, fetches).                 *)
(***************************************************************************)
EXTENDS Integers, Sequences, FiniteSets, TLC

\* ------------------------------------------------------------------ bounds
MaxPages == 2          \* number of successful page inserts explored
MaxTokens == 2         \* number of distinct tokens login hands out
TicksPerHour == 1      \* resolution of the clock: ticks in one hour
ClockSlack == 1        \* ticks the clock runs on after the first expiry
MaxInflight == 2       \* number of requests whose handlers interleave
MaxFetches == 2        \* number of requests the client has under way

\* --------------------------------------------------------------- constants
JWT_SECRET == "your_super_secret_key_change_this"
ExpiresInHours == 1
ExpiresIn == ExpiresInHours * TicksPerHour
MaxClock == ExpiresIn + ClockSlack

\* JavaScript values that are not strings of the test alphabet
Undefined == "<undefined>"
Null == "<null>"
Falsy(v) == v \in {Undefined, Null, ""}

Emails == {"a@x", "b@x"}
Passwords == {"pw1", "pw2"}
Titles == {"T", "T2"}
Contents == {"", "C"}
EmailInputs == Emails \cup {Undefined}
PasswordInputs == Passwords \cup {Undefined}
TitleInputs == Titles \cup {"", Undefined}
ContentInputs == Contents \cup {Undefined}

VARIABLES users, pages, pageSeq, now, issued, req, res, trace, inflight, twin,
          clientToken, clientPages, fetches
vars == <<users, pages, pageSeq, now, issued, req, res, trace, inflight, twin,
          clientToken, clientPages, fetches>>
\* the part of the state that one-request-at-a-time runs of the server leave
\* alone, and what is left alone by interleaved handlers, by the second
\* execution and by the client
ext == <<inflight, twin, clientToken, clientPages, fetches>>
notInflight == <<twin, clientToken, clientPages, fetches>>
notTwin == <<inflight, clientToken, clientPages, fetches>>
notClient == <<inflight, twin>>

\* ------------------------------------------------------- tokens and headers
\* One space-separated part of an Authorization header: a plain word or a JWT.
Word(s) ==
    [kind |-> "word", text |-> s, id |-> 0, email |-> "", iat |-> 0, exp |-> 0, sig |-> ""]
UndefinedPart ==
    [kind |-> "undefined", text |-> "", id |-> 0, email |-> "", iat |-> 0, exp |-> 0, sig |-> ""]
\* localStorage.getItem('token') when no token is stored: null
NoToken == [UndefinedPart EXCEPT !.kind = "null"]
\* jwt.sign({id, email}, key, {expiresIn: '1h'}) at time t
sign(id, email, key, t) ==
    [kind |-> "jwt", text |-> "", id |-> id, email |-> email,
     iat |-> t, exp |-> t + ExpiresIn, sig |-> key]

NoUser == [id |-> 0, email |-> "", iat |-> 0, exp |-> 0]

\* (mutants of verify: the expiry, or the signature, is not checked)
verifyNoExpiry(token, key, t) ==
    IF token.kind # "jwt" \/ token.sig # key
    THEN [err |-> "JsonWebTokenError", user |-> NoUser]
    ELSE [err |-> "",
          user |-> [id |-> token.id, email |-> token.email,
                    iat |-> token.iat, exp |-> token.exp]]
verifyNoSignature(token, key, t) ==
    IF token.kind # "jwt" THEN [err |-> "JsonWebTokenError", user |-> NoUser]
    ELSE IF t >= token.exp THEN [err |-> "TokenExpiredError", user |-> NoUser]
    ELSE [err |-> "",
          user |-> [id |-> token.id, email |-> token.email,
                    iat |-> token.iat, exp |-> token.exp]]
\* jwt.verify(token, key) at time t: [err, user]
verify(token, key, t) ==
    IF token.kind # "jwt" THEN [err |-> "JsonWebTokenError", user |-> NoUser]
    ELSE IF token.sig # key THEN [err |-> "JsonWebTokenError", user |-> NoUser]
    ELSE IF t >= token.exp THEN [err |-> "TokenExpiredError", user |-> NoUser]
    ELSE [err |-> "",
          user |-> [id |-> token.id, email |-> token.email,
                    iat |-> token.iat, exp |-> token.exp]]

\* A header is the sequence authHeader.split(' ') of its parts; the absent
\* header is the empty sequence (split never returns an empty array).
NoHeader == << >>
EmptyHeader == << Word("") >>

\* authHeader && authHeader.split(' ')[1]
headerToken(h) ==
    IF h = NoHeader THEN UndefinedPart
    ELSE IF h = EmptyHeader THEN Word("")
    ELSE IF Len(h) >= 2 THEN h[2]
    ELSE UndefinedPart

\* authenticateToken: [status, user, next]; next says whether next() was called
authenticateToken(h, t) ==
    LET token == headerToken(h) IN
    IF token.kind = "undefined"
    THEN [status |-> 401, user |-> NoUser, next |-> FALSE]
    ELSE LET v == verify(token, JWT_SECRET, t) IN
         IF v.err # ""
         THEN [status |-> 403, user |-> NoUser, next |-> FALSE]
         ELSE [status |-> 0, user |-> v.user, next |-> TRUE]

\* ------------------------------------------------------------------ bcrypt
\* bcrypt.hash(password, 10): the stored hash is not the password
hash(password, cost) == [alg |-> "bcrypt", cost |-> cost, of |-> password]
\* (mutant of compare: the outcome of the comparison is not used)
compareAlways(password, stored) == TRUE
\* bcrypt.compare(password, stored)
compare(password, stored) == stored.alg = "bcrypt" /\ stored.of = password

\* --------------------------------------------------------------- responses
NoPage == [id |-> 0, title |-> Undefined, content |-> Undefined, userId |-> 0]
Response(status, message) ==
    [status |-> status, message |-> message, userId |-> 0,
     accessToken |-> UndefinedPart, rows |-> {}, page |-> NoPage]
NoResponse == Response(0, "")

\* res.sendStatus(code): the body is the status text
StatusText(code) == IF code = 401 THEN "Unauthorized" ELSE "Forbidden"

\* ---------------------------------------------------------------- requests
\* op names the route; header, email, password, id (params.id), title, content
\* and userId (a field of the body that no route reads) are what the client
\* sent; user is req.user, set by the guard.
Request(op, h, email, password, id, body, user) ==
    [op |-> op, header |-> h, email |-> email, password |-> password, id |-> id,
     title |-> body.title, content |-> body.content, userId |-> body.userId,
     user |-> user]
Body(title, content, userId) == [title |-> title, content |-> content, userId |-> userId]
NoBody == Body(Undefined, Undefined, 0)
NoRequest == Request("", NoHeader, Undefined, Undefined, 0, NoBody, NoUser)

\* ------------------------------------------------------------ SQL statements
\* SELECT * FROM users WHERE email = ?
usersByEmail(email) == {users[i] : i \in {j \in 1..Len(users) : users[j].email = email}}
\* (mutant of uniqueViolation: the column is not declared UNIQUE)
uniqueViolationNever(email) == FALSE
\* email TEXT UNIQUE: an INSERT of a taken email fails with SQLITE_CONSTRAINT
uniqueViolation(email) == usersByEmail(email) # {}
\* SELECT id, title, content FROM pages WHERE userId = ?
pagesOf(userId) ==
    {[id |-> p.id, title |-> p.title, content |-> p.content] : p \in {q \in pages : q.userId = userId}}
\* (mutants of matching: the WHERE clause without one of its two conditions)
matchingAnyOwner(pageId, userId) == {p \in pages : p.id = pageId}
matchingAnyId(pageId, userId) == {p \in pages : p.userId = userId}
\* rows matched by WHERE id = ? AND userId = ?
matching(pageId, userId) == {p \in pages : p.id = pageId /\ p.userId = userId}
\* (mutant of newRowid: id INTEGER PRIMARY KEY without AUTOINCREMENT takes
\* one more than the largest rowid in the table)
newRowidOfMax == IF pages = {} THEN 1
                 ELSE (CHOOSE m \in {p.id : p \in pages} : \A p \in pages : p.id <= m) + 1
\* id INTEGER PRIMARY KEY AUTOINCREMENT: one more than the largest rowid the
\* table ever had (sqlite_sequence)
newRowid == pageSeq + 1
\* (mutant of changes: the statement object reports no changed row)
changesNone(rows) == 0
\* this.changes: the number of rows the UPDATE or DELETE touched
changes(rows) == Cardinality(rows)
\* the value sqlite3 binds for a parameter: undefined is bound as NULL
bind(v) == IF v = Undefined THEN Null ELSE v
\* (mutant of written: the statement sets the title only)
writtenTitleOnly(p, r) == [p EXCEPT !.title = r.title]
\* UPDATE pages SET title = ?, content = ?: the row p after the statement of
\* request r
written(p, r) == [p EXCEPT !.title = r.title, !.content = bind(r.content)]
\* (mutant of orEmpty: the content is stored as it came)
orEmptyNot(content) == content
\* content || ''
orEmpty(content) == IF Falsy(content) THEN "" ELSE content
\* (mutant of scopeOf: a userId in the body overrides the token's subject)
scopeOfBody(r) == IF r.userId # 0 THEN r.userId ELSE r.user.id
\* const userId = req.user.id, for a request r that passed the guard
scopeOf(r) == r.user.id

\* (mutant of noSuchUser: the unknown email gets an answer of its own)
noSuchUserTold == Response(404, "User not found.")
\* the two 401 answers of login
noSuchUser == Response(401, "Invalid credentials.")
noMatch == Response(401, "Invalid credentials.")

\* -------------------------------------------------- requests in progress
\* A request whose handler has started: req, the place pc where the handler
\* waits ("hash", "db", "compare") or "end" when nothing of it is left to
\* run, the row a SELECT gave it, the response res and the number of
\* responses sent; overlaps records the requests that were waiting when this
\* one arrived.
Slots == 1..MaxInflight
NoSlot == [req |-> NoRequest, pc |-> "free", row |-> NoUser, res |-> NoResponse, sent |-> 0,
           overlaps |-> {}]
Waiting == {s \in Slots : inflight[s].pc \notin {"free", "end"}}

\* A second execution of the server, with the same principals: its pages
\* table, its rowid sequence and the response it gave to the request that
\* the first execution is serving.
NoTwin == [pages |-> {}, pageSeq |-> 0, res |-> NoResponse]

\* ------------------------------------------------ the client (App.jsx)
\* A request of the client: the handler that made it (kind), params.id, the
\* body, the token read from localStorage when it was made, the pages of
\* the render whose handler made it (closure), where it is (stage) and the
\* status and rows of the response.
FetchSlots == 1..MaxFetches
NoFetch == [kind |-> "", id |-> 0, body |-> NoBody, token |-> NoToken, closure |-> {},
            stage |-> "free", status |-> 0, rows |-> {}]

\* ------------------------------------------------------------------- Init
Init ==
    /\ users = << >>
    /\ pages = {}
    /\ pageSeq = 0
    /\ now = 0
    /\ issued = {}
    /\ req = NoRequest
    /\ res = NoResponse
    /\ trace = << >>
    /\ inflight = [s \in Slots |-> NoSlot]
    /\ twin = NoTwin
    /\ clientToken = NoToken
    /\ clientPages = {}
    /\ fetches = [f \in FetchSlots |-> NoFetch]

\* ----------------------------------------------------------------- actions
\* Express makes req and res afresh for every request; the server takes up a
\* request when no other is being handled (one request at a time).
Idle == req = NoRequest

\* The response has been sent: the request's req and res objects are dropped.
EndRequest ==
    /\ ~Idle
    /\ req' = NoRequest
    /\ res' = NoResponse
    /\ trace' = << >>
    /\ UNCHANGED <<users, pages, pageSeq, now, issued>>

\* The clock of the server advances.
Tick ==
    /\ Idle
    /\ now < MaxClock
    /\ now' = now + 1
    /\ UNCHANGED <<users, pages, pageSeq, issued, req, res, trace>>

\* POST /api/register
Register(email, password) ==
    /\ Idle
    /\ req' = Request("register", NoHeader, email, password, 0, NoBody, NoUser)
    /\ IF Falsy(email) \/ Falsy(password)
       THEN /\ res' = Response(400, "Email and password are required.")
            /\ trace' = << "handler" >>
            /\ UNCHANGED users
       ELSE IF uniqueViolation(email)
       THEN \* err.code === 'SQLITE_CONSTRAINT'
            /\ res' = Response(409, "Email already in use.")
            /\ trace' = << "handler", "db" >>
            /\ UNCHANGED users
       ELSE /\ users' = Append(users, [id |-> Len(users) + 1, email |-> email,
                                       password |-> hash(password, 10)])
            /\ res' = [Response(201, "User created successfully.")
                          EXCEPT !.userId = Len(users) + 1]
            /\ trace' = << "handler", "db" >>
    /\ UNCHANGED <<pages, pageSeq, now, issued>>

\* POST /api/login
Login(email, password) ==
    /\ Idle
    /\ req' = Request("login", NoHeader, email, password, 0, NoBody, NoUser)
    /\ IF Falsy(email) \/ Falsy(password)
       THEN /\ res' = Response(400, "Email and password are required.")
            /\ trace' = << "handler" >>
            /\ UNCHANGED issued
       ELSE IF usersByEmail(email) = {}
       THEN /\ res' = noSuchUser
            /\ trace' = << "handler", "db" >>
            /\ UNCHANGED issued
       ELSE LET user == CHOOSE u \in usersByEmail(email) : TRUE IN
            IF ~compare(password, user.password)
            THEN /\ res' = noMatch
                 /\ trace' = << "handler", "db" >>
                 /\ UNCHANGED issued
            ELSE LET accessToken == sign(user.id, user.email, JWT_SECRET, now) IN
                 /\ accessToken \in issued \/ Cardinality(issued) < MaxTokens
                 /\ issued' = issued \cup {accessToken}
                 /\ res' = [Response(200, "") EXCEPT !.accessToken = accessToken]
                 /\ trace' = << "handler", "db" >>
    /\ UNCHANGED <<users, pages, pageSeq, now>>

\* What the guard sends when it turns a request away: res.sendStatus(code).
Rejected(g) ==
    /\ res' = Response(g.status, StatusText(g.status))
    /\ trace' = << "authenticateToken" >>

\* GET /api/pages
ListPages(h) ==
    LET g == authenticateToken(h, now) IN
    /\ Idle
    /\ req' = Request("list", h, Undefined, Undefined, 0, NoBody, g.user)
    /\ IF ~g.next
       THEN Rejected(g)
       ELSE /\ res' = [Response(200, "") EXCEPT !.rows = pagesOf(scopeOf(req'))]
            /\ trace' = << "authenticateToken", "handler", "db" >>
    /\ UNCHANGED <<users, pages, pageSeq, now, issued>>

\* POST /api/pages
CreatePage(h, body) ==
    LET g == authenticateToken(h, now)
        title == body.title
        content == body.content
    IN
    /\ Idle
    /\ req' = Request("create", h, Undefined, Undefined, 0, body, g.user)
    /\ IF ~g.next
       THEN Rejected(g) /\ UNCHANGED <<pages, pageSeq>>
       ELSE IF Falsy(title)
       THEN /\ res' = Response(400, "Title is required.")
            /\ trace' = << "authenticateToken", "handler" >>
            /\ UNCHANGED <<pages, pageSeq>>
       ELSE \* AUTOINCREMENT: the new rowid is one more than the largest ever used
            LET lastID == newRowid
                userId == scopeOf(req')
            IN
            /\ pageSeq < MaxPages
            /\ pages' = pages \cup {[id |-> lastID, title |-> title,
                                     content |-> orEmpty(content), userId |-> userId]}
            /\ pageSeq' = lastID
            /\ res' = [Response(201, "") EXCEPT
                          !.page = [id |-> lastID, title |-> title,
                                    content |-> content, userId |-> userId]]
            /\ trace' = << "authenticateToken", "handler", "db" >>
    /\ UNCHANGED <<users, now, issued>>

\* PUT /api/pages/:id
UpdatePage(h, pageId, body) ==
    LET g == authenticateToken(h, now)
        title == body.title
        content == body.content
    IN
    /\ Idle
    /\ req' = Request("update", h, Undefined, Undefined, pageId, body, g.user)
    /\ IF ~g.next
       THEN Rejected(g) /\ UNCHANGED pages
       ELSE IF Falsy(title)
       THEN /\ res' = Response(400, "Title is required.")
            /\ trace' = << "authenticateToken", "handler" >>
            /\ UNCHANGED pages
       ELSE LET changed == matching(pageId, scopeOf(req')) IN
            /\ pages' = (pages \ changed) \cup
                        {written(p, req') : p \in changed}
            /\ res' = IF changes(changed) = 0
                      THEN Response(404, "Page not found or you don't have permission to edit it.")
                      ELSE Response(200, "Page updated successfully.")
            /\ trace' = << "authenticateToken", "handler", "db" >>
    /\ UNCHANGED <<users, pageSeq, now, issued>>

\* DELETE /api/pages/:id
DeletePage(h, pageId) ==
    LET g == authenticateToken(h, now) IN
    /\ Idle
    /\ req' = Request("delete", h, Undefined, Undefined, pageId, NoBody, g.user)
    /\ IF ~g.next
       THEN Rejected(g) /\ UNCHANGED pages
       ELSE LET changed == matching(pageId, scopeOf(req')) IN
            /\ pages' = pages \ changed
            /\ res' = IF changes(changed) = 0
                      THEN Response(404, "Page not found or you don't have permission to delete it.")
                      ELSE Response(204, "")
            /\ trace' = << "authenticateToken", "handler", "db" >>
    /\ UNCHANGED <<users, pageSeq, now, issued>>

\* ------------------------------------------------- handlers that interleave
\* Node runs each handler up to its next await or callback; the steps of
\* different requests interleave there.  A statement of the store runs as a
\* whole, and its callback right after it.
Answer(s, r, response) ==
    inflight' = [inflight EXCEPT
                    ![s] = [req |-> r, pc |-> "end", row |-> inflight[s].row,
                            res |-> response, sent |-> inflight[s].sent + 1,
                            overlaps |-> IF inflight[s].pc = "free" THEN Waiting
                                         ELSE inflight[s].overlaps]]
Await(s, r, pc, row) ==
    inflight' = [inflight EXCEPT
                    ![s] = [req |-> r, pc |-> pc, row |-> row,
                            res |-> inflight[s].res, sent |-> inflight[s].sent,
                            overlaps |-> IF inflight[s].pc = "free" THEN Waiting
                                         ELSE inflight[s].overlaps]]

\* POST /api/register, up to await bcrypt.hash
RegisterArrives(s, email, password) ==
    LET r == Request("register", NoHeader, email, password, 0, NoBody, NoUser) IN
    /\ inflight[s].pc = "free"
    /\ IF Falsy(email) \/ Falsy(password)
       THEN Answer(s, r, Response(400, "Email and password are required."))
       ELSE Await(s, r, "hash", NoUser)
    /\ UNCHANGED <<users, pages, pageSeq, now, issued, req, res, trace>>

\* await bcrypt.hash settles: the INSERT is handed to the store, or the catch
\* block answers
HashSettles(s, thrown) ==
    /\ inflight[s].pc = "hash"
    /\ IF thrown
       THEN Answer(s, inflight[s].req, Response(500, "Server error during registration."))
       ELSE Await(s, inflight[s].req, "db", NoUser)
    /\ UNCHANGED <<users, pages, pageSeq, now, issued, req, res, trace>>

\* POST /api/login, up to db.get
LoginArrives(s, email, password) ==
    LET r == Request("login", NoHeader, email, password, 0, NoBody, NoUser) IN
    /\ inflight[s].pc = "free"
    /\ IF Falsy(email) \/ Falsy(password)
       THEN Answer(s, r, Response(400, "Email and password are required."))
       ELSE Await(s, r, "db", NoUser)
    /\ UNCHANGED <<users, pages, pageSeq, now, issued, req, res, trace>>

\* A page route, up to its db.all or db.run: the guard and the title check
PageArrives(s, op, h, pageId, body) ==
    LET g == authenticateToken(h, now)
        r == Request(op, h, Undefined, Undefined, pageId, body, g.user)
    IN
    /\ inflight[s].pc = "free"
    /\ IF ~g.next
       THEN Answer(s, r, Response(g.status, StatusText(g.status)))
       ELSE IF op \in {"create", "update"} /\ Falsy(body.title)
       THEN Answer(s, r, Response(400, "Title is required."))
       ELSE Await(s, r, "db", NoUser)
    /\ UNCHANGED <<users, pages, pageSeq, now, issued, req, res, trace>>

\* The store runs the statement of request s and calls its callback; err is
\* a failure of the store other than a constraint.
StoreRuns(s, err) ==
    LET r == inflight[s].req IN
    /\ inflight[s].pc = "db"
    /\ CASE r.op = "register" ->
              /\ IF err
                 THEN Answer(s, r, Response(500, "Database error during registration."))
                      /\ UNCHANGED users
                 ELSE IF uniqueViolation(r.email)
                 THEN Answer(s, r, Response(409, "Email already in use."))
                      /\ UNCHANGED users
                 ELSE /\ users' = Append(users, [id |-> Len(users) + 1, email |-> r.email,
                                                 password |-> hash(r.password, 10)])
                      /\ Answer(s, r, [Response(201, "User created successfully.")
                                          EXCEPT !.userId = Len(users) + 1])
              /\ UNCHANGED <<pages, pageSeq>>
         [] r.op = "login" ->
              /\ IF err
                 THEN Answer(s, r, Response(500, "Database error during login."))
                 ELSE IF usersByEmail(r.email) = {}
                 THEN Answer(s, r, noSuchUser)
                 ELSE Await(s, r, "compare", CHOOSE u \in usersByEmail(r.email) : TRUE)
              /\ UNCHANGED <<users, pages, pageSeq>>
         [] r.op = "list" ->
              /\ IF err
                 THEN Answer(s, r, Response(500, "Could not retrieve pages."))
                 ELSE Answer(s, r, [Response(200, "") EXCEPT !.rows = pagesOf(scopeOf(r))])
              /\ UNCHANGED <<users, pages, pageSeq>>
         [] r.op = "create" ->
              /\ IF err
                 THEN Answer(s, r, Response(500, "Could not create page."))
                      /\ UNCHANGED <<pages, pageSeq>>
                 ELSE LET lastID == newRowid
                          userId == scopeOf(r)
                      IN
                      /\ pageSeq < MaxPages
                      /\ pages' = pages \cup {[id |-> lastID, title |-> r.title,
                                               content |-> orEmpty(r.content), userId |-> userId]}
                      /\ pageSeq' = lastID
                      /\ Answer(s, r, [Response(201, "") EXCEPT
                                          !.page = [id |-> lastID, title |-> r.title,
                                                    content |-> r.content, userId |-> userId]])
              /\ UNCHANGED users
         [] r.op = "update" ->
              /\ IF err
                 THEN Answer(s, r, Response(500, "Could not update page."))
                      /\ UNCHANGED pages
                 ELSE LET changed == matching(r.id, scopeOf(r)) IN
                      /\ pages' = (pages \ changed) \cup
                                  {written(p, r) : p \in changed}
                      /\ Answer(s, r, IF changes(changed) = 0
                                      THEN Response(404, "Page not found or you don't have permission to edit it.")
                                      ELSE Response(200, "Page updated successfully."))
              /\ UNCHANGED <<users, pageSeq>>
         [] r.op = "delete" ->
              /\ IF err
                 THEN Answer(s, r, Response(500, "Could not delete page."))
                      /\ UNCHANGED pages
                 ELSE LET changed == matching(r.id, scopeOf(r)) IN
                      /\ pages' = pages \ changed
                      /\ Answer(s, r, IF changes(changed) = 0
                                      THEN Response(404, "Page not found or you don't have permission to delete it.")
                                      ELSE Response(204, ""))
              /\ UNCHANGED <<users, pageSeq>>
    /\ UNCHANGED <<now, issued, req, res, trace>>

\* await bcrypt.compare settles in the callback of login's db.get.  The
\* callback is an async function with no try around the await: when compare
\* rejects, the callback's promise rejects and nothing more of the handler
\* runs.
CompareSettles(s, thrown) ==
    LET r == inflight[s].req
        user == inflight[s].row
    IN
    /\ inflight[s].pc = "compare"
    /\ IF thrown
       THEN /\ inflight' = [inflight EXCEPT ![s].pc = "end"]
            /\ UNCHANGED issued
       ELSE IF ~compare(r.password, user.password)
       THEN Answer(s, r, noMatch) /\ UNCHANGED issued
       ELSE LET accessToken == sign(user.id, user.email, JWT_SECRET, now) IN
            /\ accessToken \in issued \/ Cardinality(issued) < MaxTokens
            /\ issued' = issued \cup {accessToken}
            /\ Answer(s, r, [Response(200, "") EXCEPT !.accessToken = accessToken])
    /\ UNCHANGED <<users, pages, pageSeq, now, req, res, trace>>

\* ------------------------------------------------------------- what clients send
\* Tokens a client without the server secret can make from one it was given:
\* the same claims signed with another key.
forge(t) == [t EXCEPT !.sig = "attacker_key"]

Bearer(t) == << Word("Bearer"), t >>

\* Authorization headers of every shape, made from the tokens handed out:
\* none, "", "Bearer", "Bearer garbage", "Bearer <token>", "Bearer <forged>"
\* and "Basic <token>".
Headers ==
    {NoHeader, EmptyHeader, << Word("Bearer") >>, Bearer(Word("garbage"))}
    \cup { Bearer(t) : t \in issued }
    \cup { Bearer(forge(t)) : t \in issued }
    \cup { << Word("Basic"), t >> : t \in issued }

\* Well-formed headers only.
BearerHeaders == { Bearer(t) : t \in issued }

\* params.id: an id in use, a deleted one, or the next one, not yet assigned
PageIds == 1..(pageSeq + 1)

\* Bodies of create and update requests.  A route that finds no title reads
\* nothing else of the body, so the other fields vary only under a title.
Bodies ==
    { Body(t, c, u) : t \in Titles, c \in ContentInputs, u \in {0, 1} }
    \cup { Body(t, Undefined, 0) : t \in {"", Undefined} }

\* The credentials of two well-behaved clients.
Credentials == { <<"a@x", "pw1">>, <<"b@x", "pw2">> }

\* ------------------------------------------------------------ specifications
\* Spec: the guard.  Clients that register and sign in properly send headers
\* of every shape to the four page routes as the clock advances; the routes
\* get one body, and update and delete aim at the page created last.
OneBody == Body("T", "", 0)
Next ==
    \/ Tick /\ UNCHANGED ext
    \/ EndRequest /\ UNCHANGED ext
    \/ \E c \in Credentials : Register(c[1], c[2]) /\ UNCHANGED ext
    \/ \E c \in Credentials : Login(c[1], c[2]) /\ UNCHANGED ext
    \/ \E h \in Headers : ListPages(h) /\ UNCHANGED ext
    \/ \E h \in Headers : CreatePage(h, OneBody) /\ UNCHANGED ext
    \/ \E h \in Headers : UpdatePage(h, pageSeq, OneBody) /\ UNCHANGED ext
    \/ \E h \in Headers : DeletePage(h, pageSeq) /\ UNCHANGED ext

Spec == Init /\ [][Next]_vars

\* SpecAccounts: register and login with every email and password, present
\* or not, as the clock advances.
NextAccounts ==
    \/ Tick /\ UNCHANGED ext
    \/ EndRequest /\ UNCHANGED ext
    \/ \E email \in EmailInputs, password \in PasswordInputs : Register(email, password) /\ UNCHANGED ext
    \/ \E email \in EmailInputs, password \in PasswordInputs : Login(email, password) /\ UNCHANGED ext

SpecAccounts == Init /\ [][NextAccounts]_vars

\* SpecPages: the page routes with every body and id, called by clients that
\* register and sign in properly and send well-formed headers.
NextPages ==
    \/ EndRequest /\ UNCHANGED ext
    \/ \E c \in Credentials : Register(c[1], c[2]) /\ UNCHANGED ext
    \/ \E c \in Credentials : Login(c[1], c[2]) /\ UNCHANGED ext
    \/ \E h \in BearerHeaders : ListPages(h) /\ UNCHANGED ext
    \/ \E h \in BearerHeaders, b \in Bodies : CreatePage(h, b) /\ UNCHANGED ext
    \/ \E h \in BearerHeaders, id \in PageIds, b \in Bodies : UpdatePage(h, id, b) /\ UNCHANGED ext
    \/ \E h \in BearerHeaders, id \in PageIds : DeletePage(h, id) /\ UNCHANGED ext

SpecPages == Init /\ [][NextPages]_vars

\* ===================================================================== claims
\* A step in which a request of route op is served.
Served(op) == Idle /\ req'.op = op
\* The request being answered passed the guard as principal uid.
By(r, uid) == r.user # NoUser /\ r.user.id = uid
\* The principals' ids.
UserIds == {users[i].id : i \in 1..Len(users)}
\* The row of table pages with the given id, as a set of at most one row.
pageWithId(tbl, id) == {p \in tbl : p.id = id}

\* ------------------------------------------------------------------------ C1
\* C1 as stated: whenever principal P2 is answered for list, no row it gets
\* is a page of another principal P1, and whenever P2 is answered for update
\* or delete on the id of a page owned by P1 # P2, the answer is 404 and the
\* page is in the table as before.
C1_Original ==
    [][\A p \in pages : \A P2 \in UserIds \ {p.userId} :
          /\ (Served("list") /\ By(req', P2))
                => (\A r \in res'.rows : r.id # p.id)
          /\ ((Served("update") \/ Served("delete")) /\ By(req', P2) /\ req'.id = p.id)
                => (res'.status = 404 /\ p \in pages')]_vars

\* C1 (amended): the same, except that the answer to an update without a
\* title is 400; to an update with a title and to a delete it is 404, and
\* in every case the page is in the table as before, with its title and
\* content.
C1_Isolation ==
    [][\A p \in pages : \A P2 \in UserIds \ {p.userId} :
          /\ (Served("list") /\ By(req', P2))
                => (\A r \in res'.rows : r.id # p.id)
          /\ ((Served("update") \/ Served("delete")) /\ By(req', P2) /\ req'.id = p.id)
                => /\ res'.status = (IF req'.op = "update" /\ Falsy(req'.title)
                                     THEN 400 ELSE 404)
                   /\ p \in pages']_vars

\* P2 has just been refused the deletion of a page that P1 owns, and has
\* pages of its own.
C1_Witness ==
    /\ req.op = "delete" /\ res.status = 404
    /\ \E p \in pages : p.id = req.id /\ p.userId # req.user.id
    /\ \E q \in pages : q.userId = req.user.id

PageOps == {"list", "create", "update", "delete"}
\* The principal registered under an email has the given id.
IsPrincipal(id, email) == id \in 1..Len(users) /\ users[id].id = id /\ users[id].email = email

\* C3: the token that login hands out for principal P carries P's id and
\* email and the time of issue.  Sent unmodified as "Bearer <token>" to any
\* page route, it is refused with 403 at every time later than one hour
\* after its issue, and at every time earlier than that the guard lets it
\* through with P's id and email in req.user, whatever was done in between.
C3_TokenLifetime ==
    /\ (req.op = "login" /\ res.status = 200) =>
          /\ res.accessToken.iat = now
          /\ res.accessToken.exp = now + ExpiresIn
          /\ IsPrincipal(res.accessToken.id, req.email)
          /\ res.accessToken.email = req.email
          /\ res.accessToken \in issued
    /\ \A t \in issued :
          /\ IsPrincipal(t.id, t.email)
          /\ (req.op \in PageOps /\ req.header = Bearer(t)) =>
                /\ now > t.iat + ExpiresIn =>
                      (res.status = 403 /\ trace = << "authenticateToken" >>)
                /\ now < t.iat + ExpiresIn =>
                      /\ res.status \notin {401, 403}
                      /\ req.user.id = t.id /\ req.user.email = t.email
                      /\ Len(trace) > 1

\* A token is refused after its hour, although its principal has signed in
\* again since and holds a fresh token.
C3_Witness ==
    \E t \in issued :
        /\ req.op \in PageOps /\ req.header = Bearer(t)
        /\ now > t.iat + ExpiresIn /\ res.status = 403
        /\ \E t2 \in issued : t2.id = t.id /\ t2.iat > t.iat

\* ------------------------------------------------------------------------ C4
\* C4: once an email is registered, every register request with that email
\* and any password is answered 409 and adds no principal.
C4_DuplicateEmail ==
    [][(/\ Served("register")
        /\ ~Falsy(req'.email) /\ ~Falsy(req'.password)
        /\ \E i \in 1..Len(users) : users[i].email = req'.email)
       => (res'.status = 409 /\ res'.message = "Email already in use."
           /\ users' = users)]_vars

\* A second registration of an email, with another password than the first,
\* has just been answered 409.
C4_Witness ==
    /\ req.op = "register" /\ res.status = 409
    /\ \E i \in 1..Len(users) :
          users[i].email = req.email /\ users[i].password.of # req.password

\* ------------------------------------------------------------------------ C5
\* C5: a login with a registered email and another password than the
\* registered one, and a login with an email that is not registered, get
\* one and the same response: 401 with the body "Invalid credentials." and
\* nothing else.
C5_SameFailure ==
    (/\ req.op = "login" /\ ~Falsy(req.email) /\ ~Falsy(req.password)
     /\ \A i \in 1..Len(users) :
           users[i].email = req.email => users[i].password.of # req.password)
    => res = Response(401, "Invalid credentials.")

\* A login with the wrong password for a registered email has been refused
\* while the other email is not registered.
C5_Witness ==
    /\ req.op = "login" /\ res.status = 401
    /\ \E i \in 1..Len(users) : users[i].email = req.email
    /\ \E e \in Emails : \A i \in 1..Len(users) : users[i].email # e

\* ------------------------------------------------------------------------ C6
\* No page has the id of the request and the caller for its owner: either
\* no page has that id, or the page of that id is another principal's.
NothingOwned(r) == \A p \in pages : ~(p.id = r.id /\ p.userId = r.user.id)
NotFoundOf(op) ==
    IF op = "update"
    THEN Response(404, "Page not found or you don't have permission to edit it.")
    ELSE Response(404, "Page not found or you don't have permission to delete it.")

\* C6 as stated: an update or delete by an authenticated principal, with
\* any body, on an id that does not exist or is another owner's, gets the
\* 404 response of its route and nothing else.
C6_Original ==
    [][((Served("update") \/ Served("delete")) /\ req'.user # NoUser /\ NothingOwned(req'))
       => res' = NotFoundOf(req'.op)]_vars

\* C6 (amended): the response to such a request does not depend on which of
\* the two causes holds: it is the 404 response of the route for a delete
\* and for an update with a title, and 400 "Title is required." for an
\* update without a title.
C6_Indistinguishable ==
    [][((Served("update") \/ Served("delete")) /\ req'.user # NoUser /\ NothingOwned(req'))
       => /\ res' = IF req'.op = "update" /\ Falsy(req'.title)
                    THEN Response(400, "Title is required.")
                    ELSE NotFoundOf(req'.op)
          /\ pages' = pages]_vars

\* An update with a title on another owner's page has been answered 404,
\* and an id that no page has exists as well.
C6_Witness ==
    /\ req.op = "update" /\ res.status = 404 /\ ~Falsy(req.title)
    /\ \E p \in pages : p.id = req.id /\ p.userId # req.user.id
    /\ \E id \in PageIds : \A p \in pages : p.id # id

\* ------------------------------------------------------------------------ C7
\* The header has the shape "Bearer <token>".
BearerShape(h) == Len(h) = 2 /\ h[1] = Word("Bearer") /\ h[2] # Word("")

\* C7: a request to a page route whose Authorization header is absent or
\* has not the shape "Bearer <token>" is answered 401 by the guard, and
\* neither the route's handler nor the store is reached.
C7_Original ==
    (req.op \in PageOps /\ ~BearerShape(req.header))
    => (res.status = 401 /\ trace = << "authenticateToken" >>)

\* ------------------------------------------------------------------------ C8
\* The token does not verify at the current time.
FailsVerification(x) == x.kind # "jwt" \/ x.sig # JWT_SECRET \/ now >= x.exp

\* C8: a request to a page route with a header "Bearer <token>" whose token
\* does not verify (not signed with the server's secret, or expired) is
\* answered 403, gets no req.user, and its handler does not run; a handler
\* of a page route runs only for a request carrying a token that login
\* handed out and that has not expired, and with that token's identity.
C8_Forbidden ==
    /\ (req.op \in PageOps /\ BearerShape(req.header) /\ FailsVerification(req.header[2]))
          => (res.status = 403 /\ req.user = NoUser /\ trace = << "authenticateToken" >>)
    /\ (req.op \in PageOps /\ Len(trace) > 1)
          => \E i \in 1..Len(req.header) :
                LET x == req.header[i] IN
                /\ x \in issued /\ ~FailsVerification(x)
                /\ req.user = [id |-> x.id, email |-> x.email, iat |-> x.iat, exp |-> x.exp]

\* A token with a principal's claims under another signature has been
\* refused while the token it was copied from is still valid.
C8_Witness ==
    \E t \in issued :
        /\ req.op \in PageOps /\ req.header = Bearer(forge(t))
        /\ now < t.exp /\ res.status = 403

\* ------------------------------------------------------------------------ C9
\* C9: no two rows of pages share an id; the owner of a page is the subject
\* of the token of the create request that made it, whatever userId the
\* body of that request names; and no step changes the owner of a page.
C9_OwnerFixed ==
    [][/\ \A p \in pages' : \A q \in pages' : p.id = q.id => p = q
       /\ \A p \in pages : \A q \in pages' : p.id = q.id => q.userId = p.userId
       /\ \A q \in pages' :
             (\A p \in pages : p.id # q.id)
             => /\ Served("create") /\ res'.status = 201 /\ res'.page.id = q.id
                /\ BearerShape(req'.header) /\ req'.header[2] \in issued
                /\ q.userId = req'.header[2].id]_vars

\* A principal has created a page with another principal's id as userId in
\* the body, and the page is its own.
C9_Witness ==
    /\ req.op = "create" /\ res.status = 201
    /\ req.userId # 0 /\ req.userId # req.user.id
    /\ \E p \in pages : p.id = res.page.id /\ p.userId = req.user.id

\* ----------------------------------------------------------------------- C10
\* C10: a create request that passed the guard and has no title, or an empty
\* one, is answered 400 and adds no page; with a title it adds exactly one
\* page, with an id no page had, owned by the caller, with the title given
\* and the content given, or "" for an absent content, and is answered 201
\* with that id and the fields as they were sent.
C10_Create ==
    [][(Served("create") /\ req'.user # NoUser) =>
          IF Falsy(req'.title)
          THEN /\ res' = Response(400, "Title is required.")
               /\ pages' = pages
          ELSE \E new \in pages' :
                 /\ pages' = pages \cup {new}
                 /\ \A p \in pages : p.id # new.id
                 /\ new.userId = req'.user.id
                 /\ new.title = req'.title
                 /\ new.content = (IF req'.content = Undefined THEN "" ELSE req'.content)
                 /\ res'.status = 201
                 /\ res'.page = [id |-> new.id, title |-> req'.title,
                                 content |-> req'.content, userId |-> req'.user.id]]_vars

\* A page has been created without a content and is stored with "", after
\* another page was deleted.
C10_Witness ==
    /\ req.op = "create" /\ res.status = 201 /\ req.content = Undefined
    /\ \E p \in pages : p.id = res.page.id /\ p.content = ""
    /\ \E id \in 1..pageSeq : \A p \in pages : p.id # id

\* The owner's requests on the page created last arrive while others wait
\* for the store.  The pages are created before the first of them arrives.
AllFree == \A s \in Slots : inflight[s].pc = "free"
Owner == << "a@x", "pw1" >>
RaceBodies == { Body(t, c, 0) : t \in Titles, c \in Contents }

NextRace ==
    \/ EndRequest /\ UNCHANGED ext
    \/ AllFree /\ Register(Owner[1], Owner[2]) /\ UNCHANGED ext
    \/ AllFree /\ Login(Owner[1], Owner[2]) /\ UNCHANGED ext
    \/ \E h \in BearerHeaders : AllFree /\ CreatePage(h, OneBody) /\ UNCHANGED ext
    \/ \E s \in Slots, h \in BearerHeaders, b \in RaceBodies :
          Idle /\ pageSeq > 0 /\ PageArrives(s, "update", h, pageSeq, b) /\ UNCHANGED notInflight
    \/ \E s \in Slots, h \in BearerHeaders :
          Idle /\ pageSeq > 0 /\ PageArrives(s, "delete", h, pageSeq, NoBody) /\ UNCHANGED notInflight
    \/ \E s \in Slots : StoreRuns(s, FALSE) /\ UNCHANGED notInflight

SpecRace == Init /\ [][NextRace]_vars

\* Registrations arrive while others wait for bcrypt or for the store.
Registrations == { << e, p >> : e \in Emails, p \in Passwords }

NextRegistrations ==
    \/ \E s \in Slots, c \in Registrations : RegisterArrives(s, c[1], c[2]) /\ UNCHANGED notInflight
    \/ \E s \in Slots : HashSettles(s, FALSE) /\ UNCHANGED notInflight
    \/ \E s \in Slots : StoreRuns(s, FALSE) /\ UNCHANGED notInflight

SpecRegistrations == Init /\ [][NextRegistrations]_vars

\* Requests of every outcome: wrong and absent passwords, headers of every
\* shape, bodies with and without a title, ids in use, deleted and unassigned.
AllCredentials == Credentials \cup { << "a@x", "pw2" >>, << "a@x", Undefined >> }
TwoBodies == { OneBody, Body(Undefined, Undefined, 0) }

NextEffects ==
    \/ EndRequest /\ UNCHANGED ext
    \/ \E c \in AllCredentials : Register(c[1], c[2]) /\ UNCHANGED ext
    \/ \E c \in AllCredentials : Login(c[1], c[2]) /\ UNCHANGED ext
    \/ \E h \in Headers : ListPages(h) /\ UNCHANGED ext
    \/ \E h \in Headers, b \in TwoBodies : CreatePage(h, b) /\ UNCHANGED ext
    \/ \E h \in Headers, id \in PageIds, b \in TwoBodies : UpdatePage(h, id, b) /\ UNCHANGED ext
    \/ \E h \in Headers, id \in PageIds : DeletePage(h, id) /\ UNCHANGED ext

SpecEffects == Init /\ [][NextEffects]_vars

\* One request of any kind is handled step by step, and bcrypt and the store
\* may fail under it.
FaultHeaders == {NoHeader, Bearer(Word("garbage"))} \cup BearerHeaders

NextFaults ==
    \/ EndRequest /\ UNCHANGED ext
    \/ AllFree /\ Register(Owner[1], Owner[2]) /\ UNCHANGED ext
    \/ AllFree /\ Login(Owner[1], Owner[2]) /\ UNCHANGED ext
    \/ \E h \in BearerHeaders : AllFree /\ CreatePage(h, OneBody) /\ UNCHANGED ext
    \/ \E c \in AllCredentials : Idle /\ AllFree /\ RegisterArrives(1, c[1], c[2]) /\ UNCHANGED notInflight
    \/ \E c \in AllCredentials : Idle /\ AllFree /\ LoginArrives(1, c[1], c[2]) /\ UNCHANGED notInflight
    \/ \E op \in {"list", "create", "update", "delete"}, h \in FaultHeaders,
          id \in PageIds, b \in TwoBodies :
          Idle /\ AllFree /\ PageArrives(1, op, h, id, b) /\ UNCHANGED notInflight
    \/ \E s \in Slots, thrown \in BOOLEAN : HashSettles(s, thrown) /\ UNCHANGED notInflight
    \/ \E s \in Slots, err \in BOOLEAN : StoreRuns(s, err) /\ UNCHANGED notInflight
    \/ \E s \in Slots, thrown \in BOOLEAN : CompareSettles(s, thrown) /\ UNCHANGED notInflight

SpecFaults == Init /\ [][NextFaults]_vars

\* ------------------------------------------------------ two executions
\* A page route run on the tables tbl and rowid sequence seq of the second
\* execution, for a request r that passed the guard: the tables after it and
\* the response.
handle(tbl, seq, r) ==
    LET own == {p \in tbl : p.id = r.id /\ p.userId = r.user.id}
        same(response) == [pages |-> tbl, pageSeq |-> seq, res |-> response]
    IN
    CASE r.op = "list" ->
            same([Response(200, "") EXCEPT
                     !.rows = {[id |-> p.id, title |-> p.title, content |-> p.content]
                                  : p \in {q \in tbl : q.userId = r.user.id}}])
      [] r.op = "create" ->
            IF Falsy(r.title) THEN same(Response(400, "Title is required."))
            ELSE [pages |-> tbl \cup {[id |-> seq + 1, title |-> r.title,
                                       content |-> orEmpty(r.content), userId |-> r.user.id]},
                  pageSeq |-> seq + 1,
                  res |-> [Response(201, "") EXCEPT
                              !.page = [id |-> seq + 1, title |-> r.title,
                                        content |-> r.content, userId |-> r.user.id]]]
      [] r.op = "update" ->
            IF Falsy(r.title) THEN same(Response(400, "Title is required."))
            ELSE IF own = {}
            THEN same(Response(404, "Page not found or you don't have permission to edit it."))
            ELSE [pages |-> (tbl \ own) \cup {written(p, r) : p \in own},
                  pageSeq |-> seq,
                  res |-> Response(200, "Page updated successfully.")]
      [] r.op = "delete" ->
            IF own = {}
            THEN same(Response(404, "Page not found or you don't have permission to delete it."))
            ELSE [pages |-> tbl \ own, pageSeq |-> seq, res |-> Response(204, "")]

\* The page route op as one request of the first execution.
Serve(op, h, pageId, body) ==
    CASE op = "list" -> ListPages(h)
      [] op = "create" -> CreatePage(h, body)
      [] op = "update" -> UpdatePage(h, pageId, body)
      [] op = "delete" -> DeletePage(h, pageId)

\* The principal that observes is the one registered first; the others are
\* everyone else.
Observer == 1
HeadersOf(ids) == { Bearer(t) : t \in {u \in issued : u.id \in ids} }
TwinIds == 1..(twin.pageSeq + 1)
TwinBodies == { OneBody, Body("T2", "C", 0) }

\* The observer's request is served by both executions.
InBoth(op, h, pageId, body) ==
    /\ Serve(op, h, pageId, body)
    /\ op = "create" => twin.pageSeq < MaxPages
    /\ twin' = handle(twin.pages, twin.pageSeq, req')
    /\ UNCHANGED notTwin

\* A page operation of another principal happens in the second execution
\* only.
InTwinOnly(op, h, pageId, body) ==
    LET r == Request(op, h, Undefined, Undefined, pageId, body, authenticateToken(h, now).user)
        out == handle(twin.pages, twin.pageSeq, r)
    IN
    /\ Idle
    /\ op = "create" => twin.pageSeq < MaxPages
    /\ twin' = [out EXCEPT !.res = NoResponse]
    /\ UNCHANGED <<users, pages, pageSeq, now, issued, req, res, trace>>
    /\ UNCHANGED notTwin

\* The response of the first execution has been sent, and so has the second's.
EndBoth ==
    /\ EndRequest
    /\ twin' = [twin EXCEPT !.res = NoResponse]
    /\ UNCHANGED notTwin

NextTwin ==
    \/ EndBoth
    \/ \E c \in Credentials : Register(c[1], c[2]) /\ UNCHANGED ext
    \/ \E c \in Credentials : Login(c[1], c[2]) /\ UNCHANGED ext
    \/ \E op \in PageOps, h \in HeadersOf({Observer}), id \in PageIds \cup TwinIds,
          b \in TwinBodies : InBoth(op, h, id, b)
    \/ \E op \in PageOps \ {"list"}, h \in HeadersOf(UserIds \ {Observer}), id \in PageIds,
          b \in TwinBodies : Serve(op, h, id, b) /\ UNCHANGED ext
    \/ \E op \in PageOps \ {"list"}, h \in HeadersOf(UserIds \ {Observer}), id \in TwinIds,
          b \in TwinBodies : InTwinOnly(op, h, id, b)

SpecTwin == Init /\ [][NextTwin]_vars

\* ------------------------------------------------------------ the client
\* authenticatedFetch: the Authorization header is made from the token in
\* localStorage when the request is made, and left out when there is none.
HeaderOf(t) == IF t = NoToken THEN NoHeader ELSE Bearer(t)

\* A handler calls authenticatedFetch: the request leaves with the token of
\* this moment, and the handler's continuation keeps the pages of its render.
Start(f, kind, pageId, body, t) ==
    fetches' = [fetches EXCEPT
                   ![f] = [kind |-> kind, id |-> pageId, body |-> body, token |-> t,
                           closure |-> clientPages, stage |-> "sent", status |-> 0,
                           rows |-> {}]]

FetchesDone == \A f \in FetchSlots : fetches[f].stage = "free"

\* AuthComponent signs in and calls handleLoginSuccess(accessToken); the
\* effect on [token] then starts loading the pages.
SignIn(f, email, password) ==
    /\ clientToken = NoToken
    /\ fetches[f].stage = "free"
    /\ Login(email, password)
    /\ res'.status = 200
    /\ clientToken' = res'.accessToken
    /\ Start(f, "pages", 0, NoBody, res'.accessToken)
    /\ UNCHANGED clientPages
    /\ UNCHANGED notClient

\* handleLogout; the effect on [token] then empties the pages.  Requests
\* under way are not cancelled.
SignOut ==
    /\ clientToken # NoToken
    /\ clientToken' = NoToken
    /\ clientPages' = {}
    /\ UNCHANGED <<users, pages, pageSeq, now, issued, req, res, trace, fetches>>
    /\ UNCHANGED notClient

\* handleSavePage(pageToSave) up to its first await: POST for a new page
\* (pageId 0), PUT for one of the list.
ClickSave(f, pageId, body) ==
    /\ clientToken # NoToken
    /\ fetches[f].stage = "free"
    /\ pageId = 0 \/ \E p \in clientPages : p.id = pageId
    /\ Start(f, "save", pageId, body, clientToken)
    /\ UNCHANGED <<users, pages, pageSeq, now, issued, req, res, trace, clientToken, clientPages>>
    /\ UNCHANGED notClient

\* handleDeletePage(pageId) of a page of the list, confirmed, up to its await
ClickDelete(f, pageId) ==
    /\ clientToken # NoToken
    /\ fetches[f].stage = "free"
    /\ \E p \in clientPages : p.id = pageId
    /\ Start(f, "delete", pageId, NoBody, clientToken)
    /\ UNCHANGED <<users, pages, pageSeq, now, issued, req, res, trace, clientToken, clientPages>>
    /\ UNCHANGED notClient

\* The server handles the request of f and answers.
ServerAnswers(f) ==
    LET x == fetches[f]
        h == HeaderOf(x.token)
    IN
    /\ x.stage = "sent"
    /\ CASE x.kind \in {"pages", "refresh"} -> ListPages(h)
         [] x.kind = "delete" -> DeletePage(h, x.id)
         [] x.kind = "save" /\ x.id = 0 -> CreatePage(h, x.body)
         [] x.kind = "save" /\ x.id # 0 -> UpdatePage(h, x.id, x.body)
    /\ fetches' = [fetches EXCEPT ![f].stage = "answered", ![f].status = res'.status,
                                  ![f].rows = res'.rows]
    /\ UNCHANGED <<clientToken, clientPages>>
    /\ UNCHANGED notClient

\* The response reaches the client: authenticatedFetch drops the token on
\* 401 and 403 (the effect on [token] empties the pages when the token
\* changes), and the handler that made the request goes on.
ClientReceives(f) ==
    LET x == fetches[f]
        expired == x.status \in {401, 403}
        ok == x.status \in 200..299
        dropped == IF expired /\ clientToken # NoToken THEN {} ELSE clientPages
    IN
    /\ x.stage = "answered"
    /\ clientToken' = IF expired THEN NoToken ELSE clientToken
    /\ CASE x.kind \in {"pages", "refresh"} ->
              \* setPages(data)
              /\ clientPages' = IF ok THEN x.rows ELSE dropped
              /\ fetches' = [fetches EXCEPT ![f] = NoFetch]
         [] x.kind = "delete" ->
              \* setPages(pages.filter(p => p.id !== pageId))
              /\ clientPages' = IF ok THEN {p \in x.closure : p.id # x.id} ELSE dropped
              /\ fetches' = [fetches EXCEPT ![f] = NoFetch]
         [] x.kind = "save" ->
              \* await authenticatedFetch('/pages')
              /\ clientPages' = dropped
              /\ IF ok THEN Start(f, "refresh", 0, NoBody, clientToken)
                       ELSE fetches' = [fetches EXCEPT ![f] = NoFetch]
    /\ UNCHANGED <<users, pages, pageSeq, now, issued, req, res, trace>>
    /\ UNCHANGED notClient

\* One session of one principal: pages are saved one at a time, and deletes
\* are started from the list while nothing but deletes is under way.
OnlyDeletes == \A f \in FetchSlots : fetches[f].kind \in {"", "delete"}

NextClient ==
    \/ EndRequest /\ UNCHANGED ext
    \/ Register(Owner[1], Owner[2]) /\ UNCHANGED ext
    \/ \E f \in FetchSlots : SignIn(f, Owner[1], Owner[2])
    \/ \E f \in FetchSlots : FetchesDone /\ ClickSave(f, 0, OneBody)
    \/ \E f \in FetchSlots, id \in PageIds : OnlyDeletes /\ ClickDelete(f, id)
    \/ \E f \in FetchSlots : ServerAnswers(f)
    \/ \E f \in FetchSlots : ClientReceives(f)

SpecClient == Init /\ [][NextClient]_vars

\* Sessions of two principals in one browser, one after the other, with
\* sign-outs while requests are under way.
NextSessions ==
    \/ EndRequest /\ UNCHANGED ext
    \/ \E c \in Credentials : Register(c[1], c[2]) /\ UNCHANGED ext
    \/ \E f \in FetchSlots, c \in Credentials : SignIn(f, c[1], c[2])
    \/ SignOut
    \/ \E f \in FetchSlots : FetchesDone /\ ClickSave(f, 0, OneBody)
    \/ \E f \in FetchSlots, id \in PageIds : OnlyDeletes /\ ClickDelete(f, id)
    \/ \E f \in FetchSlots : ServerAnswers(f)
    \/ \E f \in FetchSlots : ClientReceives(f)

SpecSessions == Init /\ [][NextSessions]_vars

\* ----------------------------------------------------------------------- C14
\* Some principal is registered with this email and this password.
Registered(email, password) ==
    \E i \in 1..Len(users) : users[i].email = email /\ users[i].password.of = password

\* C14: a register answered 201 adds the principal with the email and the
\* password sent, under the userId it returns; a login is answered 200 with
\* a token if and only if a principal is registered with the email and
\* exactly the password sent, and then the token is signed by the server and
\* carries that principal's id and the email.
C14_LoginIssues ==
    [][/\ (Served("register") /\ res'.status = 201) =>
            /\ Len(users') = Len(users) + 1
            /\ \A i \in 1..Len(users) : users'[i] = users[i]
            /\ users'[Len(users')].email = req'.email
            /\ users'[Len(users')].password.of = req'.password
            /\ users'[Len(users')].id = res'.userId
            /\ \A i \in 1..Len(users) : users[i].id # res'.userId
       /\ Served("login") =>
            /\ res'.status = 200 <=> Registered(req'.email, req'.password)
            /\ res'.status = 200 <=> res'.accessToken.kind = "jwt"
            /\ res'.status = 200 =>
                  /\ res'.accessToken.sig = JWT_SECRET
                  /\ res'.accessToken.email = req'.email
                  /\ \E i \in 1..Len(users) :
                        /\ users[i].email = req'.email
                        /\ users[i].id = res'.accessToken.id]_vars

\* The principal registered second has signed in and holds a token with id 2
\* while a login with the other password was possible.
C14_Witness ==
    /\ req.op = "login" /\ res.status = 200
    /\ res.accessToken.id = 2 /\ Len(users) = 2
    /\ users[2].email = req.email /\ users[2].password.of = req.password

\* ----------------------------------------------------------------------- C15
\* C15: every row of pages has a non-empty title and a content that is a
\* string, after every step; an update without a title is answered 400 and
\* changes nothing.
C15_Original ==
    [][/\ \A p \in pages' : ~Falsy(p.title) /\ p.content \notin {Null, Undefined}
       /\ (Served("update") /\ req'.user # NoUser /\ Falsy(req'.title))
             => (res'.status = 400 /\ pages' = pages)]_vars

\* ----------------------------------------------------------------------- C18
\* The ids that were assigned and whose pages are deleted.
Deleted == {id \in 1..pageSeq : \A p \in pages : p.id # id}

\* C18 as stated: the id that a create returns is greater than every id
\* assigned before; a deleted id stays without a page, and every update or
\* delete on it, by any principal, is answered 404.
C18_Original ==
    [][/\ \A p \in pages : p.id <= pageSeq
       /\ (Served("create") /\ res'.status = 201) =>
             (res'.page.id > pageSeq /\ \A q \in pages' \ pages : q.id = res'.page.id)
       /\ \A id \in Deleted :
             /\ \A q \in pages' : q.id # id
             /\ ((Served("update") \/ Served("delete")) /\ req'.user # NoUser /\ req'.id = id)
                   => res'.status = 404]_vars

\* C18 (amended): the same, except that an update without a title on a
\* deleted id is answered 400, as on any id.
C18_NoReuse ==
    [][/\ \A p \in pages : p.id <= pageSeq
       /\ (Served("create") /\ res'.status = 201) =>
             (res'.page.id > pageSeq /\ \A q \in pages' \ pages : q.id = res'.page.id)
       /\ \A id \in Deleted :
             /\ \A q \in pages' : q.id # id
             /\ ((Served("update") \/ Served("delete")) /\ req'.user # NoUser /\ req'.id = id)
                   => res'.status = (IF req'.op = "update" /\ Falsy(req'.title)
                                     THEN 400 ELSE 404)]_vars

\* After page 1 was deleted and another page was created, a principal that
\* owns a page is answered 404 for an update, with a title, of id 1.
C18_Witness ==
    /\ req.op = "update" /\ ~Falsy(req.title) /\ res.status = 404
    /\ req.id = 1 /\ 1 \in Deleted
    /\ \E p \in pages : p.id > 1 /\ p.userId = req.user.id

\* ----------------------------------------------------------------------- C16
\* What the server keeps between requests: the two tables and the rowid
\* sequence of pages.  (Tokens live with the clients.)
ServerState == << users, pages, pageSeq >>

\* The statuses of a request that was turned away.
RejectedStatuses == {400, 401, 403, 404, 409}

\* C16: login and list (and the token verification in front of every page
\* route) leave the server's state as it was, and so does every request, of
\* any operation, that is answered 400, 401, 403, 404 or 409.
C16_NoEffect ==
    [][(Idle /\ req' # NoRequest) =>
          /\ req'.op \in {"login", "list"} => ServerState' = ServerState
          /\ res'.status \in RejectedStatuses => ServerState' = ServerState
          /\ req'.op \in PageOps /\ req'.user = NoUser =>
                (res'.status \in {401, 403} /\ ServerState' = ServerState)]_vars

\* An update with a title was answered 404 for the id of a page that exists
\* and belongs to someone else.
C16_Witness ==
    /\ req.op = "update" /\ ~Falsy(req.title) /\ res.status = 404
    /\ \E p \in pages : p.id = req.id /\ p.userId # req.user.id

\* ----------------------------------------------------------------------- C11
\* The pages before the first request of the race arrived: one per create,
\* as the owner created them.
RaceBase ==
    {[id |-> i, title |-> OneBody.title, content |-> "", userId |-> 1] : i \in 1..pageSeq}

\* One request applied alone to a table: the table after it and its status.
seqApply(tbl, r) ==
    LET own == {p \in tbl : p.id = r.id /\ p.userId = r.user.id} IN
    IF own = {} THEN [pages |-> tbl, status |-> 404]
    ELSE IF r.op = "delete" THEN [pages |-> tbl \ own, status |-> 204]
    ELSE [pages |-> (tbl \ own) \cup
                    {[id |-> p.id, title |-> r.title, content |-> r.content,
                      userId |-> p.userId] : p \in own},
          status |-> 200]

\* The requests in order, one after the other.
RECURSIVE replay(_, _)
replay(tbl, order) ==
    IF order = << >> THEN [pages |-> tbl, status |-> << >>]
    ELSE LET first == seqApply(tbl, inflight[Head(order)].req)
             rest == replay(first.pages, Tail(order))
         IN [pages |-> rest.pages, status |-> << first.status >> \o rest.status]

Orders(S) == {f \in [1..Cardinality(S) -> S] : \A i, j \in 1..Cardinality(S) : f[i] = f[j] => i = j}
Ended == {s \in Slots : inflight[s].pc = "end"}

\* C11: whatever the interleaving of the owner's updates and deletes of one
\* page, the table is what the answered requests give when they are applied
\* one after the other in some order, and every answer is the one of that
\* order; a row's title and content are those of one update (or the
\* created ones), and at most one delete of the page is answered 204.
C11_Linearized ==
    /\ \E order \in Orders(Ended) :
          LET out == replay(RaceBase, order) IN
          /\ out.pages = pages
          /\ \A k \in 1..Len(order) : out.status[k] = inflight[order[k]].res.status
    /\ \A p \in pages :
          \/ p \in RaceBase
          \/ \E s \in Ended : LET r == inflight[s].req IN
                /\ r.op = "update" /\ inflight[s].res.status = 200
                /\ r.id = p.id /\ r.title = p.title /\ r.content = p.content
    /\ \A i \in 1..pageSeq :
          Cardinality({s \in Ended : /\ inflight[s].req.op = "delete"
                                     /\ inflight[s].req.id = i
                                     /\ inflight[s].res.status = 204}) <= 1

\* Two requests were waiting for the store at the same time; the delete was
\* answered 204 and the update, with another title and content, 404.
C11_Witness ==
    \E s, t \in Ended :
        /\ s \in inflight[t].overlaps
        /\ inflight[s].req.op = "delete" /\ inflight[s].res.status = 204
        /\ inflight[t].req.op = "update" /\ inflight[t].res.status = 404
        /\ inflight[t].req.title = "T2" /\ inflight[t].req.content = "C"

\* ----------------------------------------------------------------------- C12
\* The register requests for an email that have been answered.
RegistersOf(email) ==
    {s \in Ended : inflight[s].req.op = "register" /\ inflight[s].req.email = email}

\* C12: in every state, whatever the interleaving of the registrations, an
\* email has at most one principal; of the answered registrations for an
\* email exactly one was answered 201 and every other 409; and a request
\* answered 201 is the one whose row, with the hash of its own password, is
\* stored under the userId it was given.
C12_UniqueEmail ==
    \A email \in Emails :
        /\ Cardinality({i \in 1..Len(users) : users[i].email = email}) <= 1
        /\ RegistersOf(email) # {} =>
              Cardinality({s \in RegistersOf(email) : inflight[s].res.status = 201}) = 1
        /\ \A s \in RegistersOf(email) :
              /\ inflight[s].res.status \in {201, 409}
              /\ inflight[s].sent = 1
              /\ inflight[s].res.status = 201 =>
                    \E i \in 1..Len(users) :
                        /\ users[i].id = inflight[s].res.userId
                        /\ users[i].email = email
                        /\ users[i].password = hash(inflight[s].req.password, 10)

\* Two registrations for one email with different passwords were hashing at
\* the same time; the one that arrived second was answered 201 and the first
\* 409.
C12_Witness ==
    \E s, t \in Ended :
        /\ s \in inflight[t].overlaps
        /\ inflight[s].req.op = "register" /\ inflight[t].req.op = "register"
        /\ inflight[s].req.email = inflight[t].req.email
        /\ inflight[s].req.password # inflight[t].req.password
        /\ inflight[t].res.status = 201 /\ inflight[s].res.status = 409

\* ----------------------------------------------------------------------- C13
\* The statuses of each route (500 is the store's or bcrypt's failure).
Listed(op) ==
    CASE op = "register" -> {201, 400, 409, 500}
      [] op = "login" -> {200, 400, 401, 500}
      [] op = "list" -> {200, 401, 403, 500}
      [] op = "create" -> {201, 400, 401, 403, 500}
      [] op = "update" -> {200, 400, 401, 403, 404, 500}
      [] op = "delete" -> {204, 401, 403, 404, 500}

\* C13: a request is never answered twice, and once nothing of its handler
\* is left to run it has been answered once, with a status of its route,
\* also when bcrypt.hash, bcrypt.compare or the store fails.
C13_Original ==
    \A s \in Slots :
        /\ inflight[s].sent <= 1
        /\ inflight[s].pc = "end" =>
              /\ inflight[s].sent = 1
              /\ inflight[s].res.status \in Listed(inflight[s].req.op)

\* ----------------------------------------------------------------------- C17
\* C17: two executions that differ only in the page operations of the other
\* principals give the observer the same response to each of its page
\* requests: the same status, the same rows with the same ids in list, the
\* same id in create.
C17_Original ==
    (req.op \in PageOps /\ req.user.id = Observer) => res = twin.res

\* The route run on the tables of the first execution gives what the
\* first execution does.
HandleAgrees ==
    [][(Idle /\ req'.op \in PageOps /\ req'.user # NoUser) =>
          handle(pages, pageSeq, req') = [pages |-> pages', pageSeq |-> pageSeq', res |-> res']]_vars

\* ----------------------------------------------------------------------- C19
\* C19: when no request of the client is under way, the list it shows is the
\* server's list of the principal signed in: no page whose delete was
\* answered 204, and every page that is still stored.
C19_Original ==
    (clientToken # NoToken /\ FetchesDone) => clientPages = pagesOf(clientToken.id)

\* ----------------------------------------------------------------------- C20
\* C20: after a sign-out, or a 401 or 403 answer, once no request of the
\* client is under way the client holds no token and its list is empty; and
\* the list of a session never holds a page of another principal, fetched in
\* an earlier session.
C20_Original ==
    /\ (clientToken = NoToken /\ FetchesDone) => clientPages = {}
    /\ clientToken # NoToken =>
          \A p \in clientPages : \A q \in pages : q.id = p.id => q.userId = clientToken.id

====
